---- MODULE Spec2Model ----
(***************************************************************************)
(* Firmament scheduler: label-selector / node-affinity matching            *)
(* (src/scheduling/label_utils.cc) and the score and cost bookkeeping of   *)
(* the CPU cost model (src/scheduling/flow/cpu_cost_model.h).              *)
(*                                                                         *)
(* The matching functions are pure.  Each is applied by one action that    *)
(* draws its arguments from bounded sets, records them in the argument     *)
(* variables and records the value returned in ret (and in fatal whether   *)
(* the LOG(FATAL) branch was reached).                                     *)
(***************************************************************************)
EXTENDS Integers, Sequences, FiniteSets, TLC

VARIABLES
  call,              \* the function the last step applied ("none" at start)
  rd,                \* ResourceDescriptor: rd.labels is the repeated Label field
  rd_labels,         \* unordered_map<string, string> argument
  selector,          \* LabelSelector argument
  selectors,         \* RepeatedPtrField<LabelSelector> argument or result
  matchExpressions,  \* RepeatedPtrField<NodeSelectorRequirement> argument
  td,                \* TaskDescriptor argument
  nodeSelectorTerms, \* RepeatedPtrField<NodeSelectorTerm> argument
  ret,               \* boolean returned by the function applied
  fatal,             \* TRUE iff the call reached LOG(FATAL)
  machines,          \* resources added by AddMachine and not removed
  tasks,             \* tasks added by AddTask and not removed
  ec_to_node_priority_scores,     \* EC -> (resource -> PriorityScoresList_t)
  ec_to_max_min_priority_scores,  \* EC -> MinMaxScores_t
  finalized,         \* ECs whose scores FinalizeScores has normalized
  infinity_,         \* CpuCostModel::infinity_
  cost,              \* the cost the last arc query returned
  largest_cost       \* the largest flattened cost returned so far (0 before any)

labelVars == <<call, rd, rd_labels, selector, selectors, matchExpressions, td,
               nodeSelectorTerms, ret, fatal>>
costVars == <<machines, tasks, ec_to_node_priority_scores,
              ec_to_max_min_priority_scores, finalized, infinity_, cost, largest_cost>>
vars == <<labelVars, costVars>>

(***************************************************************************)
(* Bounds of the argument sets.                                            *)
(***************************************************************************)
MaxLabels == 2      \* labels of a resource
MaxValues == 2      \* values of a selector applied on its own
MaxSelectors == 2   \* selectors of a selector list
MaxExprs == 2       \* match expressions of a node selector term
MaxTerms == 2       \* node selector terms of a required section

Keys == {"zone", "gpu"}
Values == {"us-east", "us-west"}

\* LabelSelector::SelectorType
IN_SET == 0
NOT_IN_SET == 1
EXISTS_KEY == 2
NOT_EXISTS_KEY == 3
SelectorTypes == {IN_SET, NOT_IN_SET, EXISTS_KEY, NOT_EXISTS_KEY}

\* operator names of a NodeSelectorRequirement; "Gt" is one the code does not know
Operators == {"In", "NotIn", "Exists", "DoesNotExist", "Gt"}

SeqsUpTo(S, n) == UNION {[1..k -> S] : k \in 0..n}
Range(s) == {s[i] : i \in 1..Len(s)}

Labels == [key : Keys, value : Values]
LabelLists == SeqsUpTo(Labels, MaxLabels)
ResourceDescriptors == [labels : LabelLists]
LabelMaps == UNION {[D -> Values] : D \in SUBSET Keys}
EmptyMap == [k \in {} |-> ""]

ValueLists == SeqsUpTo(Values, MaxValues)
LabelSelectors == [type : SelectorTypes, key : Keys, values : ValueLists]
\* selectors that occur in lists: one value each
ListSelectors == [type : SelectorTypes, key : Keys, values : {<<"us-east">>}]
SelectorLists == SeqsUpTo(ListSelectors, MaxSelectors)

\* match expressions converted on their own: every operator name, with and
\* without a value
NodeSelectorRequirements ==
  [key : Keys, operator : Operators, values : {<<>>, <<"us-east">>}]
MatchExpressionLists == SeqsUpTo(NodeSelectorRequirements, MaxExprs)

\* match expressions of the terms of a task's required node affinity
AffinityRequirements ==
  {[key |-> "gpu", operator |-> "Exists", values |-> <<>>],
   [key |-> "zone", operator |-> "In", values |-> <<"us-east">>]}
NodeSelectorTerms ==
  [matchexpressions : SeqsUpTo(AffinityRequirements, MaxExprs)]
NodeSelectorTermLists == SeqsUpTo(NodeSelectorTerms, MaxTerms)

\* explicit label selectors of a task
TaskSelectors == {[type |-> NOT_IN_SET, key |-> "zone", values |-> <<"us-west">>]}
TaskSelectorLists == SeqsUpTo(TaskSelectors, MaxSelectors)

\* has_affinity(), affinity().has_node_affinity() and
\* node_affinity().has_requiredduringschedulingignoredduringexecution(): a
\* submessage that is not set has nothing set inside it
TaskDescriptors ==
  {t \in [label_selectors : TaskSelectorLists,
          has_affinity : BOOLEAN,
          has_node_affinity : BOOLEAN,
          has_required : BOOLEAN,
          nodeselectorterms : NodeSelectorTermLists] :
     /\ t.has_node_affinity => t.has_affinity
     /\ t.has_required => t.has_node_affinity
     /\ ~t.has_required => t.nodeselectorterms = <<>>}

(***************************************************************************)
(* misc/map-util.h helpers, as label_utils.cc uses them.                   *)
(***************************************************************************)
\* variant: the insertion overwrites a key already present
InsertOverwriting(m, k, v) ==
  [x \in DOMAIN m \cup {k} |-> IF x = k THEN v ELSE m[x]]

InsertIfNotPresent(m, k, v) == IF k \in DOMAIN m THEN m ELSE m @@ (k :> v)
ContainsKey(m, k) == k \in DOMAIN m
\* FindOrNull(m, k) != NULL
FindOrNull(m, k) == k \in DOMAIN m

\* the loop  for (label : rd.labels()) InsertIfNotPresent(&rd_labels, ...)
RECURSIVE InsertLabels(_, _, _)
InsertLabels(labels, i, m) ==
  IF i > Len(labels) THEN m
  ELSE InsertLabels(labels, i + 1,
                    InsertIfNotPresent(m, labels[i].key, labels[i].value))

\* variant: NOT_IN_SET demands that the key be present
SatisfiesLabelSelectorValuesNotInNeedsKey(m, selector_values, sel) ==
  CASE sel.type = IN_SET ->
         IF FindOrNull(m, sel.key)
           THEN (IF m[sel.key] \in selector_values THEN TRUE ELSE FALSE)
           ELSE FALSE
    [] sel.type = NOT_IN_SET ->
         IF FindOrNull(m, sel.key)
           THEN (IF m[sel.key] \in selector_values THEN FALSE ELSE TRUE)
           ELSE FALSE
    [] sel.type = EXISTS_KEY -> ContainsKey(m, sel.key)
    [] sel.type = NOT_EXISTS_KEY -> ~ContainsKey(m, sel.key)
    [] OTHER -> FALSE

\* variant: EXISTS_KEY falls through to the IN_SET test
SatisfiesLabelSelectorValuesExistsAsIn(m, selector_values, sel) ==
  CASE sel.type \in {IN_SET, EXISTS_KEY} ->
         IF FindOrNull(m, sel.key)
           THEN (IF m[sel.key] \in selector_values THEN TRUE ELSE FALSE)
           ELSE FALSE
    [] sel.type = NOT_IN_SET ->
         IF FindOrNull(m, sel.key)
           THEN (IF m[sel.key] \in selector_values THEN FALSE ELSE TRUE)
           ELSE TRUE
    [] sel.type = NOT_EXISTS_KEY -> ~ContainsKey(m, sel.key)
    [] OTHER -> FALSE

\* the switch of SatisfiesLabelSelector(rd_labels, selector_values, selector)
SatisfiesLabelSelectorValues(m, selector_values, sel) ==
  CASE sel.type = IN_SET ->
         IF FindOrNull(m, sel.key)
           THEN (IF m[sel.key] \in selector_values THEN TRUE ELSE FALSE)
           ELSE FALSE
    [] sel.type = NOT_IN_SET ->
         IF FindOrNull(m, sel.key)
           THEN (IF m[sel.key] \in selector_values THEN FALSE ELSE TRUE)
           ELSE TRUE
    [] sel.type = EXISTS_KEY -> ContainsKey(m, sel.key)
    [] sel.type = NOT_EXISTS_KEY -> ~ContainsKey(m, sel.key)
    [] OTHER -> FALSE

\* default: LOG(FATAL) << "Unsupported selector type: "
UnsupportedSelectorType(sel) == sel.type \notin SelectorTypes

\* variant: only the first value reaches selector_values
SatisfiesLabelSelectorMapFirstValue(m, sel) ==
  SatisfiesLabelSelectorValues(
    m, IF sel.values = <<>> THEN {} ELSE {sel.values[1]}, sel)

\* SatisfiesLabelSelector(rd_labels, selector): the values become a set
SatisfiesLabelSelectorMap(m, sel) ==
  SatisfiesLabelSelectorValues(m, Range(sel.values), sel)

\* SatisfiesLabelSelector(rd, selector)
SatisfiesLabelSelector(r, sel) ==
  SatisfiesLabelSelectorMap(InsertLabels(r.labels, 1, EmptyMap), sel)

\* SatisfiesLabelSelectors(rd, selectors): false at the first selector that fails
SatisfiesLabelSelectors(r, sels) ==
  LET m == InsertLabels(r.labels, 1, EmptyMap)
  IN  \A i \in 1..Len(sels) : SatisfiesLabelSelectorMap(m, sels[i])

\* the loop of SatisfiesLabelSelectors reaches LOG(FATAL): a selector of an
\* unsupported type is evaluated, no earlier selector having returned false
SatisfiesLabelSelectorsFatal(r, sels) ==
  LET m == InsertLabels(r.labels, 1, EmptyMap)
  IN  \E i \in 1..Len(sels) :
        /\ UnsupportedSelectorType(sels[i])
        /\ \A j \in 1..(i - 1) : SatisfiesLabelSelectorMap(m, sels[j])

(***************************************************************************)
(* Match expressions, node selector terms and the placement check.         *)
(***************************************************************************)
\* variant: an operator name the code does not know gets a type of its own
OperatorTypeUnknownIsNew(operator_type) ==
  IF operator_type = "In" THEN 0
  ELSE IF operator_type = "NotIn" THEN 1
  ELSE IF operator_type = "Exists" THEN 2
  ELSE IF operator_type = "DoesNotExist" THEN 3
  ELSE 4

\* uint64_t type = 0; if (operator_type == "In") type = 0; else if ...
OperatorType(operator_type) ==
  IF operator_type = "In" THEN 0
  ELSE IF operator_type = "NotIn" THEN 1
  ELSE IF operator_type = "Exists" THEN 2
  ELSE IF operator_type = "DoesNotExist" THEN 3
  ELSE 0

NodeSelectorRequirementsAsLabelSelectors(exprs) ==
  [i \in 1..Len(exprs) |->
     [key |-> exprs[i].key,
      type |-> OperatorType(exprs[i].operator),
      values |-> exprs[i].values]]

SatisfiesMatchExpressions(r, exprs) ==
  SatisfiesLabelSelectors(r, NodeSelectorRequirementsAsLabelSelectors(exprs))

SatisfiesMatchExpressionsFatal(r, exprs) ==
  SatisfiesLabelSelectorsFatal(r, NodeSelectorRequirementsAsLabelSelectors(exprs))

\* variant: a term without match expressions is not skipped
NodeMatchesNodeSelectorTermsEmptyTermMatches(r, terms) ==
  \E i \in 1..Len(terms) : SatisfiesMatchExpressions(r, terms[i].matchexpressions)

\* the loop returns true at the first term that has match expressions, all of
\* them satisfied, and false when no term is left
NodeMatchesNodeSelectorTerms(r, terms) ==
  \E i \in 1..Len(terms) :
    /\ ~(Len(terms[i].matchexpressions) = 0)
    /\ ~(~SatisfiesMatchExpressions(r, terms[i].matchexpressions))

NodeMatchesNodeSelectorTermsFatal(r, terms) ==
  \E i \in 1..Len(terms) :
    /\ Len(terms[i].matchexpressions) # 0
    /\ SatisfiesMatchExpressionsFatal(r, terms[i].matchexpressions)
    /\ \A j \in 1..(i - 1) :
         \/ Len(terms[j].matchexpressions) = 0
         \/ ~SatisfiesMatchExpressions(r, terms[j].matchexpressions)

\* variant: the terms are matched whenever the required section is present
SatisfiesNodeSelectorAndNodeAffinityNoSizeGuard(r, t) ==
  IF Len(t.label_selectors) # 0 /\ ~SatisfiesLabelSelectors(r, t.label_selectors)
    THEN FALSE
    ELSE IF t.has_affinity /\ t.has_node_affinity
           THEN IF t.has_required
                  THEN NodeMatchesNodeSelectorTerms(r, t.nodeselectorterms)
                  ELSE TRUE
           ELSE TRUE

\* variant: node affinity without a required section selects all nodes before
\* the label selectors are looked at
SatisfiesNodeSelectorAndNodeAffinityEarlySelectAll(r, t) ==
  IF t.has_affinity /\ t.has_node_affinity /\ ~t.has_required
    THEN TRUE
    ELSE IF Len(t.label_selectors) # 0
              /\ ~SatisfiesLabelSelectors(r, t.label_selectors)
           THEN FALSE
           ELSE IF t.has_affinity /\ t.has_node_affinity
                     /\ Len(t.nodeselectorterms) # 0
                  THEN NodeMatchesNodeSelectorTerms(r, t.nodeselectorterms)
                  ELSE TRUE

SatisfiesNodeSelectorAndNodeAffinity(r, t) ==
  IF Len(t.label_selectors) # 0 /\ ~SatisfiesLabelSelectors(r, t.label_selectors)
    THEN FALSE
    ELSE LET nodeAffinityMatches == TRUE
         IN  IF t.has_affinity /\ t.has_node_affinity
               THEN IF t.has_required
                      THEN IF Len(t.nodeselectorterms) # 0
                             THEN nodeAffinityMatches
                                    /\ NodeMatchesNodeSelectorTerms(
                                         r, t.nodeselectorterms)
                             ELSE nodeAffinityMatches
                      ELSE TRUE
               ELSE nodeAffinityMatches

SatisfiesNodeSelectorAndNodeAffinityFatal(r, t) ==
  \/ Len(t.label_selectors) # 0 /\ SatisfiesLabelSelectorsFatal(r, t.label_selectors)
  \/ /\ ~(Len(t.label_selectors) # 0
           /\ ~SatisfiesLabelSelectors(r, t.label_selectors))
     /\ t.has_affinity /\ t.has_node_affinity /\ t.has_required
     /\ NodeMatchesNodeSelectorTermsFatal(r, t.nodeselectorterms)

(***************************************************************************)
(* CPU cost model: priority scores of an equivalence class (EC), their     *)
(* normalization, and the flattening of cost vectors.                      *)
(***************************************************************************)
Resources == {"r1", "r2", "r3"}
Tasks == {"t1", "t2"}
\* every task of the model belongs to this equivalence class
TaskEC == "ec1"
\* raw scores: sums of the weights of the preferred terms a candidate satisfies
RawScores == {0, 40, 70, 100}
\* values of one dimension of a cost vector, below, at and above omega_
DimensionCosts == {0, 1, 1500}

\* const Cost_t omega_ = 1000
omega_ == 1000

\* variant: the bounds start at 0, not at the sentinel
MinMaxScoreFromZero == [min_score |-> 0, max_score |-> 0]

\* MinMaxScore_t() : min_score(-1), max_score(-1)
MinMaxScore_t == [min_score |-> -1, max_score |-> -1]
MinMaxScores_t ==
  [node_affinity_priority |-> MinMaxScore_t,
   pod_affinity_priority |-> MinMaxScore_t]

\* PriorityScore_t() : satisfy(true), score(0), final_score(-1)
PriorityScore_t == [satisfy |-> TRUE, score |-> 0, final_score |-> -1]
PriorityScoresList_t ==
  [node_affinity_priority |-> PriorityScore_t,
   pod_affinity_priority |-> PriorityScore_t]

CpuMemCostVectors ==
  [cpu_mem_cost_ : DimensionCosts,
   balanced_res_cost_ : DimensionCosts,
   node_affinity_soft_cost_ : DimensionCosts]

\* running minimum and maximum of a category: the first score replaces the
\* sentinel, a later one widens the bounds
TrackMinMax(mm, score) ==
  [min_score |-> IF mm.min_score = -1 \/ score < mm.min_score
                   THEN score ELSE mm.min_score,
   max_score |-> IF mm.max_score = -1 \/ score > mm.max_score
                   THEN score ELSE mm.max_score]

\* final_score = omega * (raw - min) / (max - min) when max > min, else 0
Normalize(p, mm) ==
  [p EXCEPT !.final_score =
     IF mm.max_score > mm.min_score
       THEN (omega_ * (p.score - mm.min_score)) \div (mm.max_score - mm.min_score)
       ELSE 0]

Clip(x) == IF x < 0 THEN 0 ELSE IF x > omega_ THEN omega_ ELSE x

\* sum of the three dimensions, each clipped to [0, omega_]
FlattenCostVector(cv) ==
  Clip(cv.cpu_mem_cost_) + Clip(cv.balanced_res_cost_)
    + Clip(cv.node_affinity_soft_cost_)

\* variant: a cost equal to infinity_ does not raise it
SeenCostStrictlyGreater(inf, c) == IF c > inf THEN c + 1 ELSE inf

\* infinity_ is the largest cost seen so far, plus one
SeenCost(inf, c) == IF c >= inf THEN c + 1 ELSE inf

InitCostModel ==
  /\ machines = {}
  /\ tasks = {}
  /\ ec_to_node_priority_scores = EmptyMap
  /\ ec_to_max_min_priority_scores = EmptyMap
  /\ finalized = {}
  /\ infinity_ = omega_ + 1
  /\ cost = 0
  /\ largest_cost = 0

AddMachine(r) ==
  /\ machines' = machines \cup {r}
  /\ UNCHANGED <<tasks, ec_to_node_priority_scores, ec_to_max_min_priority_scores,
                 finalized, infinity_, cost, largest_cost>>
  /\ UNCHANGED labelVars

\* the score bindings of the removed resource are purged
RemoveMachine(r) ==
  /\ r \in machines
  /\ machines' = machines \ {r}
  /\ ec_to_node_priority_scores' =
       [ec \in DOMAIN ec_to_node_priority_scores |->
          [x \in DOMAIN ec_to_node_priority_scores[ec] \ {r} |->
             ec_to_node_priority_scores[ec][x]]]
  /\ UNCHANGED <<tasks, ec_to_max_min_priority_scores, finalized, infinity_,
                 cost, largest_cost>>
  /\ UNCHANGED labelVars

\* the task's EC is registered with no score and with the sentinel bounds
AddTask(t) ==
  /\ t \notin tasks
  /\ tasks' = tasks \cup {t}
  /\ IF TaskEC \in DOMAIN ec_to_node_priority_scores
       THEN UNCHANGED <<ec_to_node_priority_scores, ec_to_max_min_priority_scores>>
       ELSE /\ ec_to_node_priority_scores' =
                 ec_to_node_priority_scores @@ (TaskEC :> EmptyMap)
            /\ ec_to_max_min_priority_scores' =
                 ec_to_max_min_priority_scores @@ (TaskEC :> MinMaxScores_t)
  /\ UNCHANGED <<machines, finalized, infinity_, cost, largest_cost>>
  /\ UNCHANGED labelVars

\* with its last task the EC is deleted and its score bounds are reset
RemoveTask(t) ==
  /\ t \in tasks
  /\ tasks' = tasks \ {t}
  /\ IF tasks' = {}
       THEN /\ ec_to_node_priority_scores' = EmptyMap
            /\ ec_to_max_min_priority_scores' = EmptyMap
            /\ finalized' = {}
       ELSE UNCHANGED <<ec_to_node_priority_scores, ec_to_max_min_priority_scores,
                        finalized>>
  /\ UNCHANGED <<machines, infinity_, cost, largest_cost>>
  /\ UNCHANGED labelVars

\* one candidate of the EC is scored in both categories
CalculatePrioritiesCost(ec, r) ==
  /\ ec \in DOMAIN ec_to_node_priority_scores
  /\ ec \notin finalized
  /\ r \notin DOMAIN ec_to_node_priority_scores[ec]
  /\ \E node_score \in RawScores, pod_score \in RawScores :
       /\ ec_to_node_priority_scores' =
            [ec_to_node_priority_scores EXCEPT ![ec] = @ @@ (r :>
               [node_affinity_priority |->
                  [PriorityScore_t EXCEPT !.score = node_score],
                pod_affinity_priority |->
                  [PriorityScore_t EXCEPT !.score = pod_score]])]
       /\ ec_to_max_min_priority_scores' =
            [ec_to_max_min_priority_scores EXCEPT ![ec] =
               [node_affinity_priority |->
                  TrackMinMax(@.node_affinity_priority, node_score),
                pod_affinity_priority |->
                  TrackMinMax(@.pod_affinity_priority, pod_score)]]
  /\ UNCHANGED <<machines, tasks, finalized, infinity_, cost, largest_cost>>
  /\ UNCHANGED labelVars

\* every candidate of the EC has been scored: the raw scores are normalized
FinalizeScores(ec) ==
  /\ ec \in DOMAIN ec_to_node_priority_scores
  /\ ec \notin finalized
  /\ DOMAIN ec_to_node_priority_scores[ec] = Resources
  /\ ec_to_node_priority_scores' =
       [ec_to_node_priority_scores EXCEPT ![ec] =
          [r \in Resources |->
             [node_affinity_priority |->
                Normalize(@[r].node_affinity_priority,
                          ec_to_max_min_priority_scores[ec].node_affinity_priority),
              pod_affinity_priority |->
                Normalize(@[r].pod_affinity_priority,
                          ec_to_max_min_priority_scores[ec].pod_affinity_priority)]]]
  /\ finalized' = finalized \cup {ec}
  /\ UNCHANGED <<machines, tasks, ec_to_max_min_priority_scores, infinity_, cost,
                 largest_cost>>
  /\ UNCHANGED labelVars

\* an arc query flattens a cost vector and returns the flattened cost
ReturnFlattened(cv) ==
  LET c == FlattenCostVector(cv)
  IN  /\ cost' = c
      /\ largest_cost' = IF c > largest_cost THEN c ELSE largest_cost
      /\ infinity_' = SeenCost(infinity_, c)

TaskToResourceNode(t, r) ==
  /\ t \in tasks
  /\ r \in machines
  /\ \E cv \in CpuMemCostVectors : ReturnFlattened(cv)
  /\ UNCHANGED <<machines, tasks, ec_to_node_priority_scores,
                 ec_to_max_min_priority_scores, finalized>>
  /\ UNCHANGED labelVars

EquivClassToResourceNode(ec, r) ==
  /\ ec \in DOMAIN ec_to_node_priority_scores
  /\ r \in machines
  /\ \E cv \in CpuMemCostVectors : ReturnFlattened(cv)
  /\ UNCHANGED <<machines, tasks, ec_to_node_priority_scores,
                 ec_to_max_min_priority_scores, finalized>>
  /\ UNCHANGED labelVars

NextScore ==
  \/ \E t \in Tasks : AddTask(t)
  \/ \E t \in Tasks : RemoveTask(t)
  \/ \E r \in Resources : CalculatePrioritiesCost(TaskEC, r)
  \/ FinalizeScores(TaskEC)

NextCost ==
  \/ \E r \in Resources : AddMachine(r)
  \/ \E r \in Resources : RemoveMachine(r)
  \/ \E t \in Tasks : AddTask(t)
  \/ \E t \in Tasks : RemoveTask(t)
  \/ \E t \in Tasks, r \in Resources : TaskToResourceNode(t, r)
  \/ \E r \in Resources : EquivClassToResourceNode(TaskEC, r)

(***************************************************************************)
(* Initial state and the actions applying the selector functions.          *)
(***************************************************************************)
NoSelector == [type |-> IN_SET, key |-> "", values |-> <<>>]
NoTask == [label_selectors |-> <<>>, has_affinity |-> FALSE,
           has_node_affinity |-> FALSE, has_required |-> FALSE,
           nodeselectorterms |-> <<>>]

Init ==
  /\ call = "none"
  /\ rd = [labels |-> <<>>]
  /\ rd_labels = EmptyMap
  /\ selector = NoSelector
  /\ selectors = <<>>
  /\ matchExpressions = <<>>
  /\ td = NoTask
  /\ nodeSelectorTerms = <<>>
  /\ ret = FALSE
  /\ fatal = FALSE
  /\ InitCostModel

\* One specification per group of operations: the matching functions do not
\* read the cost model's state, nor the cost model theirs.
SpecScore == Init /\ [][NextScore]_vars
SpecCost == Init /\ [][NextCost]_vars

CallSatisfiesLabelSelector ==
  /\ call = "none"
  /\ \E r \in ResourceDescriptors, s \in LabelSelectors :
       /\ rd' = r
       /\ selector' = s
       /\ ret' = SatisfiesLabelSelector(r, s)
       /\ fatal' = UnsupportedSelectorType(s)
  /\ call' = "SatisfiesLabelSelector"
  /\ UNCHANGED <<rd_labels, selectors, matchExpressions, td, nodeSelectorTerms>>
  /\ UNCHANGED costVars

CallSatisfiesLabelSelectorMap ==
  /\ call = "none"
  /\ \E m \in LabelMaps, s \in LabelSelectors :
       /\ rd_labels' = m
       /\ selector' = s
       /\ ret' = SatisfiesLabelSelectorMap(m, s)
       /\ fatal' = UnsupportedSelectorType(s)
  /\ call' = "SatisfiesLabelSelectorMap"
  /\ UNCHANGED <<rd, selectors, matchExpressions, td, nodeSelectorTerms>>
  /\ UNCHANGED costVars

CallSatisfiesLabelSelectors ==
  /\ call = "none"
  /\ \E r \in ResourceDescriptors, ss \in SelectorLists :
       /\ rd' = r
       /\ selectors' = ss
       /\ ret' = SatisfiesLabelSelectors(r, ss)
       /\ fatal' = SatisfiesLabelSelectorsFatal(r, ss)
  /\ call' = "SatisfiesLabelSelectors"
  /\ UNCHANGED <<rd_labels, selector, matchExpressions, td, nodeSelectorTerms>>
  /\ UNCHANGED costVars

NextSelector ==
  \/ CallSatisfiesLabelSelector
  \/ CallSatisfiesLabelSelectorMap
  \/ CallSatisfiesLabelSelectors

SpecSelector == Init /\ [][NextSelector]_vars

CallNodeSelectorRequirementsAsLabelSelectors ==
  /\ call = "none"
  /\ \E es \in MatchExpressionLists :
       /\ matchExpressions' = es
       /\ selectors' = NodeSelectorRequirementsAsLabelSelectors(es)
  /\ call' = "NodeSelectorRequirementsAsLabelSelectors"
  /\ UNCHANGED <<rd, rd_labels, selector, td, nodeSelectorTerms, ret, fatal>>
  /\ UNCHANGED costVars

CallSatisfiesMatchExpressions ==
  /\ call = "none"
  /\ \E r \in ResourceDescriptors, es \in MatchExpressionLists :
       /\ rd' = r
       /\ matchExpressions' = es
       /\ ret' = SatisfiesMatchExpressions(r, es)
       /\ fatal' = SatisfiesMatchExpressionsFatal(r, es)
  /\ call' = "SatisfiesMatchExpressions"
  /\ UNCHANGED <<rd_labels, selector, selectors, td, nodeSelectorTerms>>
  /\ UNCHANGED costVars

NextExpr ==
  \/ CallNodeSelectorRequirementsAsLabelSelectors
  \/ CallSatisfiesMatchExpressions

SpecExpr == Init /\ [][NextExpr]_vars

CallNodeMatchesNodeSelectorTerms ==
  /\ call = "none"
  /\ \E r \in ResourceDescriptors, ts \in NodeSelectorTermLists :
       /\ rd' = r
       /\ nodeSelectorTerms' = ts
       /\ ret' = NodeMatchesNodeSelectorTerms(r, ts)
       /\ fatal' = NodeMatchesNodeSelectorTermsFatal(r, ts)
  /\ call' = "NodeMatchesNodeSelectorTerms"
  /\ UNCHANGED <<rd_labels, selector, selectors, matchExpressions, td>>
  /\ UNCHANGED costVars

CallSatisfiesNodeSelectorAndNodeAffinity ==
  /\ call = "none"
  /\ \E r \in ResourceDescriptors, t \in TaskDescriptors :
       /\ rd' = r
       /\ td' = t
       /\ ret' = SatisfiesNodeSelectorAndNodeAffinity(r, t)
       /\ fatal' = SatisfiesNodeSelectorAndNodeAffinityFatal(r, t)
  /\ call' = "SatisfiesNodeSelectorAndNodeAffinity"
  /\ UNCHANGED <<rd_labels, selector, selectors, matchExpressions,
                 nodeSelectorTerms>>
  /\ UNCHANGED costVars

NextAffinity ==
  \/ CallNodeMatchesNodeSelectorTerms
  \/ CallSatisfiesNodeSelectorAndNodeAffinity

SpecAffinity == Init /\ [][NextAffinity]_vars

(***************************************************************************)
(* What a selector means on a label map (spec 4.1), stated without the     *)
(* code's helpers.                                                         *)
(***************************************************************************)
Holds(m, sel) ==
  LET present == sel.key \in DOMAIN m
      member == present /\ m[sel.key] \in Range(sel.values)
  IN  \/ sel.type = IN_SET /\ member
      \/ sel.type = NOT_IN_SET /\ ~member
      \/ sel.type = EXISTS_KEY /\ present
      \/ sel.type = NOT_EXISTS_KEY /\ ~present

KeysOf(labels) == {labels[i].key : i \in 1..Len(labels)}
FirstIndex(labels, k) ==
  CHOOSE i \in 1..Len(labels) :
    labels[i].key = k /\ \A j \in 1..(i - 1) : labels[j].key # k
LastIndex(labels, k) ==
  CHOOSE i \in 1..Len(labels) :
    labels[i].key = k /\ \A j \in (i + 1)..Len(labels) : labels[j].key # k
\* the label map in which the first (the last) label of a key gives its value
FirstWins(labels) == [k \in KeysOf(labels) |-> labels[FirstIndex(labels, k)].value]
LastWins(labels) == [k \in KeysOf(labels) |-> labels[LastIndex(labels, k)].value]

(***************************************************************************)
(* C4 as stated: with a key repeated in the label list, every selector is  *)
(* evaluated against the value of the LAST label of that key.              *)
(***************************************************************************)
C4_LastOccurrenceWins ==
  /\ call = "SatisfiesLabelSelector" =>
       ret = Holds(LastWins(rd.labels), selector)
  /\ call = "SatisfiesLabelSelectors" =>
       ret = \A i \in 1..Len(selectors) : Holds(LastWins(rd.labels), selectors[i])

(***************************************************************************)
(* C4 amended: with a key repeated in the label list, every selector is    *)
(* evaluated against the value of the FIRST label of that key.             *)
(***************************************************************************)
C4_FirstOccurrenceWins ==
  /\ call = "SatisfiesLabelSelector" =>
       ret = Holds(FirstWins(rd.labels), selector)
  /\ call = "SatisfiesLabelSelectors" =>
       ret = \A i \in 1..Len(selectors) : Holds(FirstWins(rd.labels), selectors[i])

\* a key given twice with different values, tested by IN_SET on the first value
C4_Witness ==
  /\ call = "SatisfiesLabelSelector"
  /\ rd.labels = <<[key |-> "zone", value |-> "us-east"],
                   [key |-> "zone", value |-> "us-west"]>>
  /\ selector = [type |-> IN_SET, key |-> "zone", values |-> <<"us-east">>]
  /\ ret = TRUE

(***************************************************************************)
(* C5: an IN_SET selector is satisfied iff its key is in the label map and *)
(* the key's value is one of the selector's values.                        *)
(***************************************************************************)
C5_InSet ==
  (call = "SatisfiesLabelSelectorMap" /\ selector.type = IN_SET) =>
    /\ ret = (/\ selector.key \in DOMAIN rd_labels
              /\ rd_labels[selector.key] \in Range(selector.values))
    /\ (selector.key \notin DOMAIN rd_labels => ret = FALSE)
    /\ (selector.values = <<>> => ret = FALSE)

\* scenario A: labels {zone: us-east}, IN_SET(zone, {us-east, us-west})
C5_Witness ==
  /\ call = "SatisfiesLabelSelectorMap"
  /\ rd_labels = [k \in {"zone"} |-> "us-east"]
  /\ selector = [type |-> IN_SET, key |-> "zone",
                 values |-> <<"us-west", "us-east">>]
  /\ ret = TRUE

(***************************************************************************)
(* C6: a NOT_IN_SET selector is satisfied iff its key is absent, or is     *)
(* present with a value outside the selector's values; with the key        *)
(* present it is the negation of IN_SET on the same key and values.        *)
(***************************************************************************)
C6_NotInSet ==
  (call = "SatisfiesLabelSelectorMap" /\ selector.type = NOT_IN_SET) =>
    /\ ret = (\/ selector.key \notin DOMAIN rd_labels
              \/ rd_labels[selector.key] \notin Range(selector.values))
    /\ (selector.key \in DOMAIN rd_labels =>
          ret = ~SatisfiesLabelSelectorMap(
                   rd_labels, [selector EXCEPT !.type = IN_SET]))
    /\ (selector.key \notin DOMAIN rd_labels => ret = TRUE)

\* a NOT_IN_SET selector on a key the map lacks is satisfied
C6_Witness ==
  /\ call = "SatisfiesLabelSelectorMap"
  /\ selector.type = NOT_IN_SET
  /\ selector.key \notin DOMAIN rd_labels
  /\ selector.values # <<>>
  /\ rd_labels # EmptyMap
  /\ ret = TRUE

(***************************************************************************)
(* C7: EXISTS_KEY is satisfied iff the key is present and NOT_EXISTS_KEY   *)
(* iff it is absent; any label map with the same keys and any selector     *)
(* with the same key and kind gives the same result.                       *)
(***************************************************************************)
C7_ExistsDependsOnKeyOnly ==
  (call = "SatisfiesLabelSelectorMap"
     /\ selector.type \in {EXISTS_KEY, NOT_EXISTS_KEY}) =>
    /\ selector.type = EXISTS_KEY => ret = (selector.key \in DOMAIN rd_labels)
    /\ selector.type = NOT_EXISTS_KEY => ret = (selector.key \notin DOMAIN rd_labels)
    /\ \A m2 \in LabelMaps, v2 \in ValueLists :
         DOMAIN m2 = DOMAIN rd_labels =>
           SatisfiesLabelSelectorMap(m2, [selector EXCEPT !.values = v2]) = ret

\* EXISTS_KEY satisfied although the key's value is none of the selector's
C7_Witness ==
  /\ call = "SatisfiesLabelSelectorMap"
  /\ selector.type = EXISTS_KEY
  /\ selector.key \in DOMAIN rd_labels
  /\ selector.values # <<>>
  /\ rd_labels[selector.key] \notin Range(selector.values)
  /\ ret = TRUE

(***************************************************************************)
(* The kind an operator name stands for (spec 3), unrecognized names       *)
(* standing for IN_SET, and what a match expression, a term and a list of  *)
(* label selectors mean on the labels of a resource.                       *)
(***************************************************************************)
KindOf(operator_type) ==
  CASE operator_type = "In" -> IN_SET
    [] operator_type = "NotIn" -> NOT_IN_SET
    [] operator_type = "Exists" -> EXISTS_KEY
    [] operator_type = "DoesNotExist" -> NOT_EXISTS_KEY
    [] OTHER -> IN_SET

ExprHolds(r, e) ==
  Holds(FirstWins(r.labels),
        [type |-> KindOf(e.operator), key |-> e.key, values |-> e.values])

TermHolds(r, term) ==
  /\ Len(term.matchexpressions) > 0
  /\ \A i \in 1..Len(term.matchexpressions) : ExprHolds(r, term.matchexpressions[i])

AllSelectorsHold(r, sels) ==
  \A i \in 1..Len(sels) : Holds(FirstWins(r.labels), sels[i])

HasRequiredSection(t) == t.has_affinity /\ t.has_node_affinity /\ t.has_required

(***************************************************************************)
(* C1: for a task whose required node affinity lists at least one term,    *)
(* the placement check is true iff all explicit label selectors hold and   *)
(* some term is non-empty with all its match expressions holding.          *)
(***************************************************************************)
C1_RequiredTermsOrOfAnds ==
  (/\ call = "SatisfiesNodeSelectorAndNodeAffinity"
   /\ HasRequiredSection(td)
   /\ Len(td.nodeselectorterms) >= 1) =>
    ret = (/\ AllSelectorsHold(rd, td.label_selectors)
           /\ \E i \in 1..Len(td.nodeselectorterms) :
                TermHolds(rd, td.nodeselectorterms[i]))

\* an empty term followed by a term that matches: the check succeeds
C1_Witness ==
  /\ call = "SatisfiesNodeSelectorAndNodeAffinity"
  /\ HasRequiredSection(td)
  /\ Len(td.nodeselectorterms) = 2
  /\ td.nodeselectorterms[1].matchexpressions = <<>>
  /\ td.nodeselectorterms[2].matchexpressions # <<>>
  /\ td.label_selectors # <<>>
  /\ ret = TRUE

(***************************************************************************)
(* C2 as stated: for a task whose required section holds zero terms the    *)
(* placement check returns false.                                          *)
(***************************************************************************)
C2_EmptyTermListNeverMatches ==
  (/\ call = "SatisfiesNodeSelectorAndNodeAffinity"
   /\ HasRequiredSection(td)
   /\ Len(td.nodeselectorterms) = 0) =>
    ret = FALSE

(***************************************************************************)
(* C2 amended: NodeMatchesNodeSelectorTerms is false on an empty term      *)
(* list, but the placement check does not apply it to an empty list: for a *)
(* task whose required section holds zero terms it returns true iff all    *)
(* explicit label selectors hold (true when the task has none).            *)
(***************************************************************************)
C2_EmptyTermListSkipped ==
  /\ (call = "NodeMatchesNodeSelectorTerms" /\ Len(nodeSelectorTerms) = 0) =>
       ret = FALSE
  /\ (/\ call = "SatisfiesNodeSelectorAndNodeAffinity"
      /\ HasRequiredSection(td)
      /\ Len(td.nodeselectorterms) = 0) =>
       ret = AllSelectorsHold(rd, td.label_selectors)

\* a required section without terms and no label selectors: the check succeeds
C2_Witness ==
  /\ call = "SatisfiesNodeSelectorAndNodeAffinity"
  /\ HasRequiredSection(td)
  /\ Len(td.nodeselectorterms) = 0
  /\ td.label_selectors = <<>>
  /\ ret = TRUE

(***************************************************************************)
(* C3: for a task without a required section (no affinity, no node         *)
(* affinity, or node affinity without a required section) the placement    *)
(* check returns the result of the explicit label selectors: false if one  *)
(* fails, true otherwise, true when there are none.                        *)
(***************************************************************************)
C3_NoRequiredSection ==
  (call = "SatisfiesNodeSelectorAndNodeAffinity" /\ ~HasRequiredSection(td)) =>
    /\ ret = AllSelectorsHold(rd, td.label_selectors)
    /\ (td.label_selectors = <<>> => ret = TRUE)

\* node affinity without a required section, and a label selector that fails
C3_Witness ==
  /\ call = "SatisfiesNodeSelectorAndNodeAffinity"
  /\ td.has_affinity /\ td.has_node_affinity /\ ~td.has_required
  /\ td.label_selectors # <<>>
  /\ ret = FALSE

(***************************************************************************)
(* C8: the conversion maps each match expression, in order, to a selector  *)
(* with the same key and values and the kind of its operator name, IN_SET  *)
(* for a name it does not know; match expressions are then evaluated as    *)
(* those selectors and the unsupported-type branch is never reached.       *)
(***************************************************************************)
C8_OperatorMapping ==
  /\ call = "NodeSelectorRequirementsAsLabelSelectors" =>
       /\ Len(selectors) = Len(matchExpressions)
       /\ \A i \in 1..Len(matchExpressions) :
            /\ selectors[i].key = matchExpressions[i].key
            /\ selectors[i].values = matchExpressions[i].values
            /\ selectors[i].type = KindOf(matchExpressions[i].operator)
  /\ call = "SatisfiesMatchExpressions" =>
       /\ ~fatal
       /\ ret = \A i \in 1..Len(matchExpressions) : ExprHolds(rd, matchExpressions[i])

\* an expression with an operator name the code does not know, satisfied as
\* IN_SET over its key and values
C8_Witness ==
  /\ call = "SatisfiesMatchExpressions"
  /\ Len(matchExpressions) = 2
  /\ matchExpressions[2].operator = "Gt"
  /\ matchExpressions[2].values # <<>>
  /\ ret = TRUE
  /\ ~fatal

(***************************************************************************)
(* C9: once every candidate of an EC is scored and the scores are          *)
(* finalized, in each category: if all raw scores are equal every final    *)
(* score is 0; otherwise every final score is omega*(raw-min)/(max-min),   *)
(* lies in [0, omega], is 0 for the minimum raw score and omega for the    *)
(* maximum (omega = 1000: raw 40 and 100 give 0 and 1000).  No finalized   *)
(* candidate keeps the sentinel -1.                                        *)
(***************************************************************************)
MinOf(S) == CHOOSE x \in S : \A y \in S : x <= y
MaxOf(S) == CHOOSE x \in S : \A y \in S : x >= y
Normalized(scoresOf) ==
  LET raws == {scoresOf[r].score : r \in DOMAIN scoresOf}
      lo == MinOf(raws)
      hi == MaxOf(raws)
  IN  \A r \in DOMAIN scoresOf :
        LET p == scoresOf[r]
        IN  /\ p.final_score # -1
            /\ (lo = hi => p.final_score = 0)
            /\ (lo # hi =>
                  /\ p.final_score = (omega_ * (p.score - lo)) \div (hi - lo)
                  /\ 0 <= p.final_score /\ p.final_score <= omega_
                  /\ (p.score = lo => p.final_score = 0)
                  /\ (p.score = hi => p.final_score = omega_)
                  /\ (p.score = 40 /\ lo = 40 /\ hi = 100 => p.final_score = 0)
                  /\ (p.score = 100 /\ lo = 40 /\ hi = 100 => p.final_score = 1000))

====
